---- MODULE Spec2Model ----
(***************************************************************************)
(* droid-mcp-rs: the supervisor of the external `droid` process.           *)
(*                                                                         *)
(* The model follows src/src/droid.rs: `run` (defaults, timeout clamp,     *)
(* high-autonomy gate, the race against the deadline) and `run_internal`   *)
(* (spawn, the stdout drain with its two capped buffers, wait, the join of *)
(* the stderr task and the verdict), and src/src/server.rs: the tool       *)
(* handler `DroidServer::droid` (validation of the request, the Options).  *)
(* Spec, SpecCaps and SpecRun start where run is called; SpecServer starts *)
(* at the tool call and also lets the child exit before it is waited for.  *)
(*                                                                         *)
(* Strings are TLA+ strings, so Len is the byte length the code compares   *)
(* with its caps and \o is push_str.  Option<T> is a sequence of length    *)
(* at most one.  The two byte caps are scaled down (see below); every      *)
(* other constant has the value the source gives it.                       *)
(***************************************************************************)
EXTENDS Integers, Sequences, FiniteSets, TLC

(***************************************************************************)
(* Option<T>                                                               *)
(***************************************************************************)
None == << >>
Some(v) == << v >>
IsSome(o) == o # None
Unwrap(o) == o[1]

(***************************************************************************)
(* Constants of droid.rs                                                   *)
(***************************************************************************)
DEFAULT_TIMEOUT_SECS == 600
MAX_TIMEOUT_SECS == 3600
\* 10 MB in the source; scaled so that a handful of fragments reaches it.
MAX_AGENT_MESSAGES_SIZE == 64
\* 50 MB in the source; scaled so that three events exceed it.
MAX_ALL_MESSAGES_SIZE == 130
\* 100 KB in the source; scaled so that two stderr lines exceed it.
MAX_STDERR_SIZE == 12

TRUNCATION_MARKER == "\n[... Agent messages truncated due to size limit ...]"

(***************************************************************************)
(* Bounds of the model                                                     *)
(***************************************************************************)
\* stdout lines the child writes before it closes the stream
MaxLines == 3
\* the same, in the specification of the byte caps
MaxCapLines == 4
\* the same, in the specification that varies the request and configuration
MaxLinesRun == 1
\* stderr lines the child writes
MaxStderrLines == 1
\* stdout lines read by one call that starts at the tool handler
MaxLinesServer == 1

\* stdout lines read, in the specification of the document shapes
MaxShapeLines == 3

\* stdout lines read, in the specification of the two caps side by side
MaxIndepLines == 4

\* how many lines the child writes, stdout and stderr together
MaxWrites == 4

\* how many lines a pipe holds before a write to it blocks
PipeCapacity == 1

(***************************************************************************)
(* The stdout lines.  A line carries its text (raw) and, when the text is  *)
(* a JSON document, what serde_json decodes from it: whether the document  *)
(* is an object, and the fields the drain probes, each None when the key   *)
(* is absent or its value is not a string (Value::as_str).                 *)
(***************************************************************************)
F62 == "0123456789012345678901234567890123456789012345678901234567890Z"
F64 == "012345678901234567890123456789012345678901234567890123456789012Z"

Line(raw, json, object, sid, type, message, finalText, role, text) ==
    [raw |-> raw, json |-> json, object |-> object, session_id |-> sid,
     type |-> type, message |-> message, finalText |-> finalText,
     role |-> role, text |-> text]

NotJson(raw) == Line(raw, FALSE, FALSE, None, None, None, None, None, None)

BlankLine == NotJson("  \n")
GarbageLine == NotJson("Starting droid...\n")
\* a JSON document that is not an object
ScalarLine == Line("[1]\n", TRUE, FALSE, None, None, None, None, None, None)

EvSystem ==
    Line("{\"type\":\"system\",\"session_id\":\"s1\"}\n", TRUE, TRUE,
         Some("s1"), Some("system"), None, None, None, None)
EvBareSid ==
    Line("{\"session_id\":\"s2\",\"pad\":\"" \o F62 \o "\"}\n", TRUE, TRUE,
         Some("s2"), None, None, None, None, None)
EvError ==
    Line("{\"type\":\"error\",\"message\":\"m1\"}\n", TRUE, TRUE,
         None, Some("error"), Some("m1"), None, None, None)
EvErrorNoMsg ==
    Line("{\"type\":\"error\",\"session_id\":\"\"}\n", TRUE, TRUE,
         Some(""), Some("error"), None, None, None, None)
EvErrorSid ==
    Line("{\"type\":\"error\",\"message\":\"m2\",\"session_id\":\"s2\"}\n", TRUE, TRUE,
         Some("s2"), Some("error"), Some("m2"), None, None, None)
EvCompletion ==
    Line("{\"type\":\"completion\",\"finalText\":\"a\",\"session_id\":\"s1\"}\n", TRUE, TRUE,
         Some("s1"), Some("completion"), None, Some("a"), None, None)
EvCompletionBig ==
    Line("{\"type\":\"completion\",\"finalText\":\"" \o F64 \o "\"}\n", TRUE, TRUE,
         None, Some("completion"), None, Some(F64), None, None)
EvCompletionEmpty ==
    Line("{\"type\":\"completion\",\"finalText\":\"\"}\n", TRUE, TRUE,
         None, Some("completion"), None, Some(""), None, None)
EvCompletionNoText ==
    Line("{\"type\":\"completion\",\"session_id\":\"s2\"}\n", TRUE, TRUE,
         Some("s2"), Some("completion"), None, None, None, None)
EvAssistant ==
    Line("{\"type\":\"message\",\"role\":\"assistant\",\"text\":\"bb\"}\n", TRUE, TRUE,
         None, Some("message"), None, None, Some("assistant"), Some("bb"))
EvAssistantLong ==
    Line("{\"type\":\"message\",\"role\":\"assistant\",\"text\":\"" \o F62 \o "\"}\n", TRUE, TRUE,
         None, Some("message"), None, None, Some("assistant"), Some(F62))
EvUser ==
    Line("{\"type\":\"message\",\"role\":\"user\",\"text\":\"u\"}\n", TRUE, TRUE,
         None, Some("message"), None, None, Some("user"), Some("u"))

\* The lines of the verdict specifications: every event shape of the stdout
\* schema, with short texts, and the two kinds of line that do not parse.
Lines ==
    {BlankLine, GarbageLine, EvSystem, EvBareSid, EvError, EvErrorNoMsg,
     EvErrorSid, EvCompletion, EvCompletionNoText, EvAssistant, EvUser}

\* The lines of the byte-cap specification: text fragments of 0, 1, 2, 62 and
\* 64 bytes, events of 31 to 109 serialized bytes, and a non-object document.
CapLines ==
    {EvCompletion, EvCompletionBig, EvCompletionEmpty, EvAssistant,
     EvAssistantLong, EvError, ScalarLine}

\* a completion whose text alone is over the visible-text cap (65 bytes of
\* text, 101 serialized bytes) and an event of 15 serialized bytes
EvCompletionHuge ==
    Line("{\"type\":\"completion\",\"finalText\":\"" \o F64 \o "!\"}\n", TRUE, TRUE,
         None, Some("completion"), None, Some(F64 \o "!"), None, None)
EvPing ==
    Line("{\"type\":\"ping\"}\n", TRUE, TRUE,
         None, Some("ping"), None, None, None, None)

\* The lines of the specification of the two caps side by side: texts that
\* reach the text cap before, with and after the events that reach the
\* archive cap.
IndepLines ==
    {EvCompletionHuge, EvPing, EvAssistantLong, EvAssistant, EvCompletion, EvError}

\* The lines of the shape specification: a document that is not an object,
\* an object without a type, one of unknown type, a recognized event, and a
\* line that does not parse.
ShapeLines == {ScalarLine, EvBareSid, EvSystem, EvCompletion, GarbageLine}

StderrLines == {"oops\n", "fatal: no such file\n"}

(***************************************************************************)
(* str::trim, as the drain applies it to each line                         *)
(***************************************************************************)
IsSpace(c) == c \in {" ", "\n", "\t", "\r"}

RECURSIVE TrimStart(_)
TrimStart(s) ==
    IF Len(s) > 0 /\ IsSpace(SubSeq(s, 1, 1))
    THEN TrimStart(SubSeq(s, 2, Len(s)))
    ELSE s

RECURSIVE TrimEnd(_)
TrimEnd(s) ==
    IF Len(s) > 0 /\ IsSpace(SubSeq(s, Len(s), Len(s)))
    THEN TrimEnd(SubSeq(s, 1, Len(s) - 1))
    ELSE s

Trim(s) == TrimEnd(TrimStart(s))

\* serde_json::to_string(&map).len(): the lines above are compact JSON, so
\* the re-serialized map is as long as the trimmed line (key order aside).
SerializedSize(line) == Len(Trim(line.raw))

(***************************************************************************)
(* The stdout drain, one parsed event at a time (run_internal)             *)
(***************************************************************************)
NewResult(warnings, model_display) ==
    [success |-> TRUE, session_id |-> "", agent_messages |-> "",
     agent_messages_truncated |-> FALSE, all_messages |-> << >>,
     all_messages_truncated |-> FALSE, error |-> None,
     warnings |-> warnings, model_info |-> model_display]

\* mutant: the check that no session id is recorded yet is missing
RecordSessionId_LastWins(r, ev) ==
    IF IsSome(ev.session_id) /\ Unwrap(ev.session_id) # ""
    THEN [r EXCEPT !.session_id = Unwrap(ev.session_id)]
    ELSE r

RecordSessionId(r, ev) ==
    IF IsSome(ev.session_id)
       /\ Unwrap(ev.session_id) # "" /\ r.session_id = ""
    THEN [r EXCEPT !.session_id = Unwrap(ev.session_id)]
    ELSE r

\* mutant: the event fails the run only when it carries a message
HandleError_NeedsMessage(r, ev) ==
    IF ev.type = Some("error") /\ IsSome(ev.message)
    THEN [r EXCEPT !.success = FALSE,
                   !.error = Some("droid error: " \o Unwrap(ev.message))]
    ELSE r

HandleError(r, ev) ==
    IF ev.type = Some("error")
    THEN IF IsSome(ev.message)
         THEN [r EXCEPT !.success = FALSE,
                        !.error = Some("droid error: " \o Unwrap(ev.message))]
         ELSE [r EXCEPT !.success = FALSE]
    ELSE r

\* mutant: a text that fits is appended also after the truncation
AppendText_NoStop(r, text) ==
    LET new_size == Len(r.agent_messages) + Len(text) IN
    IF new_size > MAX_AGENT_MESSAGES_SIZE
    THEN IF ~r.agent_messages_truncated
         THEN [r EXCEPT !.agent_messages = @ \o TRUNCATION_MARKER,
                        !.agent_messages_truncated = TRUE]
         ELSE r
    ELSE [r EXCEPT !.agent_messages =
              (IF @ # "" /\ text # "" THEN @ \o "\n" ELSE @) \o text]

AppendText(r, text) ==
    LET new_size == Len(r.agent_messages) + Len(text) IN
    IF new_size > MAX_AGENT_MESSAGES_SIZE
    THEN IF ~r.agent_messages_truncated
         THEN [r EXCEPT !.agent_messages = @ \o TRUNCATION_MARKER,
                        !.agent_messages_truncated = TRUE]
         ELSE r
    ELSE IF ~r.agent_messages_truncated
         THEN [r EXCEPT !.agent_messages =
                   (IF @ # "" /\ text # "" THEN @ \o "\n" ELSE @) \o text]
         ELSE r

\* mutant: the completion's text is looked up under "text"
HandleCompletion_WrongField(r, ev) ==
    IF ev.type = Some("completion") /\ IsSome(ev.text)
    THEN AppendText(r, Unwrap(ev.text))
    ELSE r

\* mutant: a completion with text marks the run successful again
HandleCompletion_ResetsSuccess(r, ev) ==
    IF ev.type = Some("completion") /\ IsSome(ev.finalText)
    THEN [AppendText(r, Unwrap(ev.finalText)) EXCEPT !.success = TRUE]
    ELSE r

HandleCompletion(r, ev) ==
    IF ev.type = Some("completion") /\ IsSome(ev.finalText)
    THEN AppendText(r, Unwrap(ev.finalText))
    ELSE r

\* mutant: the text of a message is taken whatever its role
HandleMessage_AnyRole(r, ev) ==
    IF ev.type = Some("message") /\ IsSome(ev.text)
    THEN AppendText(r, Unwrap(ev.text))
    ELSE r

HandleMessage(r, ev) ==
    IF ev.type = Some("message") /\ ev.role = Some("assistant") /\ IsSome(ev.text)
    THEN AppendText(r, Unwrap(ev.text))
    ELSE r

\* an archive that takes only the events that carry a type
Archive_NeedsType(st, ev) ==
    IF ev.object /\ IsSome(ev.type)
    THEN [result |-> [st.result EXCEPT !.all_messages = Append(@, ev)],
          all_messages_size |-> st.all_messages_size + SerializedSize(ev)]
    ELSE st

\* mutant: nothing is archived once the text has been truncated
Archive_StopsWithText(st, ev) ==
    IF ev.object /\ ~st.result.agent_messages_truncated
       /\ st.all_messages_size + SerializedSize(ev) <= MAX_ALL_MESSAGES_SIZE
    THEN [result |-> [st.result EXCEPT !.all_messages = Append(@, ev)],
          all_messages_size |-> st.all_messages_size + SerializedSize(ev)]
    ELSE IF ev.object
    THEN [st EXCEPT !.result.all_messages_truncated = TRUE]
    ELSE st

\* st = [result, all_messages_size]; only a JSON object converts to the map.
Archive(st, ev) ==
    IF ev.object
    THEN LET message_size == SerializedSize(ev) IN
         IF st.all_messages_size + message_size <= MAX_ALL_MESSAGES_SIZE
         THEN [result |-> [st.result EXCEPT !.all_messages = Append(@, ev)],
               all_messages_size |-> st.all_messages_size + message_size]
         ELSE IF ~st.result.all_messages_truncated
              THEN [st EXCEPT !.result.all_messages_truncated = TRUE]
              ELSE st
    ELSE st

ProcessEvent(st, ev) ==
    Archive([st EXCEPT !.result =
                HandleMessage(HandleCompletion(HandleError(
                    RecordSessionId(@, ev), ev), ev), ev)], ev)

\* mutant: a line that fails to parse fails the run
ProcessLine_ParseFailureFails(st, line) ==
    IF Trim(line.raw) = "" THEN st
    ELSE IF ~line.json
    THEN [st EXCEPT !.result.success = FALSE,
                    !.result.error = Some("failed to parse JSON line")]
    ELSE ProcessEvent(st, line)

\* One iteration of the read loop on a line that was read (Ok(n), n > 0).
ProcessLine(st, line) ==
    IF Trim(line.raw) = "" THEN st
    ELSE IF ~line.json THEN st
    ELSE ProcessEvent(st, line)

(***************************************************************************)
(* The stderr task: the whole loop over the lines the child writes         *)
(***************************************************************************)
RECURSIVE StderrFold(_, _)
StderrFold(stderr_output, errs) ==
    IF errs = << >> THEN stderr_output
    ELSE StderrFold(
             IF Len(stderr_output) + Len(Head(errs)) <= MAX_STDERR_SIZE
             THEN stderr_output \o Head(errs)
             ELSE stderr_output,
             Tail(errs))

StderrTask(errs) == StderrFold("", errs)

(***************************************************************************)
(* The verdict, after wait and join (run_internal)                         *)
(***************************************************************************)
ExitStatuses ==
    {[success |-> TRUE, code |-> Some(0)],
     [success |-> FALSE, code |-> Some(1)],
     [success |-> FALSE, code |-> None]}

\* {:?} of Option<i32>
CodeDebug(code) ==
    IF code = None THEN "None" ELSE "Some(" \o ToString(Unwrap(code)) \o ")"

\* mutant: a failed exit starts from an empty text
VerdictExit_DropsText(r, status, stderr_output) ==
    IF ~status.success
    THEN [r EXCEPT !.success = FALSE, !.agent_messages = "",
             !.error = IF @ = None
                       THEN Some("droid exited with code " \o CodeDebug(status.code))
                       ELSE @]
    ELSE r

\* mutant: a failed exit replaces whatever error was recorded
VerdictExit_Overwrites(r, status, stderr_output) ==
    IF ~status.success
    THEN [r EXCEPT !.success = FALSE,
             !.error = Some("droid exited with code " \o CodeDebug(status.code)
                                \o ". stderr: " \o stderr_output)]
    ELSE r

VerdictExit(r, status, stderr_output) ==
    IF ~status.success
    THEN IF r.error = None
         THEN [r EXCEPT !.success = FALSE,
                  !.error = Some(
                      IF stderr_output # ""
                      THEN "droid exited with code " \o CodeDebug(status.code)
                               \o ". stderr: " \o stderr_output
                      ELSE "droid exited with code " \o CodeDebug(status.code))]
         ELSE [r EXCEPT !.success = FALSE]
    ELSE r

\* mutant: the verdict does not look at the session id
VerdictSessionId_Skipped(r) == r

VerdictSessionId(r) ==
    IF r.session_id = ""
    THEN [r EXCEPT !.success = FALSE,
                   !.error = Some("No session_id received from droid")]
    ELSE r

\* mutant: the emptiness test looks at the archive
VerdictAgentMessages_ChecksArchive(r) ==
    IF r.all_messages = << >> /\ r.success
    THEN [r EXCEPT !.success = FALSE,
                   !.error = Some("No agent messages received from droid")]
    ELSE r

VerdictAgentMessages(r) ==
    IF r.agent_messages = "" /\ r.success
    THEN [r EXCEPT !.success = FALSE,
                   !.error = Some("No agent messages received from droid")]
    ELSE r

Verdict(r, status, stderr_output) ==
    VerdictAgentMessages(VerdictSessionId(VerdictExit(r, status, stderr_output)))

(***************************************************************************)
(* Configuration and model lookup (run and its helpers)                    *)
(***************************************************************************)
Min(a, b) == IF a <= b THEN a ELSE b

\* A model reference with what get_model_info decodes from its text: whether
\* it starts with "custom:" and the index parsed after the last hyphen.
ModelRef(text, custom, idx) == [text |-> text, custom |-> custom, idx |-> idx]

\* An entry of the Factory configuration; gpt: its name or model id mentions
\* "gpt" (case-insensitive), slug: its display name with spaces as hyphens.
GptModel ==
    [model_display_name |-> "GPT 5", slug |-> "GPT-5", model |-> "gpt-5",
     provider |-> "openai", gpt |-> TRUE]

DisplayOf(m) ==
    m.model_display_name \o " [" \o m.provider \o "] (" \o m.model \o ")"

RECURSIVE FirstGpt(_, _)
FirstGpt(custom_models, i) ==
    IF i > Len(custom_models) THEN 0
    ELSE IF custom_models[i].gpt THEN i
    ELSE FirstGpt(custom_models, i + 1)

get_default_model(custom_models) ==
    LET g == FirstGpt(custom_models, 1) IN
    IF g > 0
    THEN Some(ModelRef("custom:" \o custom_models[g].slug \o "-" \o ToString(g - 1),
                       TRUE, Some(g - 1)))
    ELSE IF custom_models # << >>
    THEN Some(ModelRef("custom:" \o custom_models[1].slug \o "-0", TRUE, Some(0)))
    ELSE None

NoCustomModelsWarning ==
    "No custom models configured. Using Factory default model (requires FACTORY_API_KEY)."

\* (model_info, warning)
get_model_info(model_param, custom_models) ==
    IF model_param = None
    THEN IF custom_models # << >>
         THEN [display |-> Some(DisplayOf(custom_models[1])), warning |-> None]
         ELSE [display |-> Some("Factory default model"),
               warning |-> Some(NoCustomModelsWarning)]
    ELSE LET model == Unwrap(model_param) IN
         IF model.custom
         THEN IF IsSome(model.idx) /\ Unwrap(model.idx) < Len(custom_models)
              THEN [display |-> Some(DisplayOf(custom_models[Unwrap(model.idx) + 1])),
                    warning |-> None]
              ELSE LET warning == "Invalid custom model reference: '" \o model.text
                                      \o "'. Using first available model." IN
                   IF custom_models # << >>
                   THEN [display |-> Some(DisplayOf(custom_models[1])),
                         warning |-> Some(warning \o "\nFallback to: "
                                              \o DisplayOf(custom_models[1]))]
                   ELSE [display |-> Some("Factory default model"),
                         warning |-> Some(warning)]
         ELSE [display |-> Some("Model: " \o model.text), warning |-> None]

get_default_auto(config) ==
    IF IsSome(config.default_auto) /\ Trim(Unwrap(config.default_auto)) # ""
    THEN config.default_auto
    ELSE Some("high")

default_timeout_secs(config) ==
    IF IsSome(config.timeout_secs)
       /\ Unwrap(config.timeout_secs) > 0
       /\ Unwrap(config.timeout_secs) <= MAX_TIMEOUT_SECS
    THEN Unwrap(config.timeout_secs)
    ELSE IF IsSome(config.timeout_secs) /\ Unwrap(config.timeout_secs) > MAX_TIMEOUT_SECS
    THEN MAX_TIMEOUT_SECS
    ELSE DEFAULT_TIMEOUT_SECS

\* run, lines 458-466 and 481-483: the defaults applied to the request
ApplyDefaults(o, config, custom_models) ==
    [o EXCEPT
        !.model = IF @ = None THEN get_default_model(custom_models) ELSE @,
        !.auto = IF @ = None THEN get_default_auto(config) ELSE @,
        !.timeout_secs = IF @ = None THEN Some(default_timeout_secs(config)) ELSE @]

\* run, lines 485-488: the duration of the race, in seconds
EffectiveTimeout(o, config) ==
    Min(Unwrap(o.timeout_secs),
        IF IsSome(config.max_timeout_secs)
        THEN Unwrap(config.max_timeout_secs) ELSE MAX_TIMEOUT_SECS)

\* mutant: the gate ignores the configuration
HighAutonomyRejected_Never(o, config) == FALSE

HighAutonomyRejected(o, config) ==
    o.auto = Some("high") /\ ~config.allow_high_autonomy

HighAutonomyError ==
    "High autonomy level is disabled in configuration. Set allow_high_autonomy=true to enable."

\* run_internal, lines 546-552
MergeWarnings(droid_warning, model_warning) ==
    IF IsSome(model_warning)
    THEN IF IsSome(droid_warning)
         THEN Some(Unwrap(droid_warning) \o "\n" \o Unwrap(model_warning))
         ELSE model_warning
    ELSE droid_warning

\* mutant: the messages name the requested timeout, not the clamped one
TimeoutResult_Unclamped(o, custom_models, droid_warning, secs) ==
    LET info == get_model_info(o.model, custom_models)
        timeout_warning ==
            "Droid execution timed out after " \o ToString(Unwrap(o.timeout_secs))
                \o " seconds"
        combined_warning ==
            IF IsSome(droid_warning) /\ IsSome(info.warning)
            THEN Unwrap(droid_warning) \o "\n" \o Unwrap(info.warning)
                     \o "\n" \o timeout_warning
            ELSE IF IsSome(droid_warning)
            THEN Unwrap(droid_warning) \o "\n" \o timeout_warning
            ELSE IF IsSome(info.warning)
            THEN Unwrap(info.warning) \o "\n" \o timeout_warning
            ELSE timeout_warning
    IN  [success |-> FALSE, session_id |-> "", agent_messages |-> "",
         agent_messages_truncated |-> FALSE, all_messages |-> << >>,
         all_messages_truncated |-> FALSE,
         error |-> Some("Timeout after " \o ToString(Unwrap(o.timeout_secs))
                            \o " seconds"),
         warnings |-> Some(combined_warning), model_info |-> info.display]

\* run, lines 506-526: the result of a lost race
TimeoutResult(o, custom_models, droid_warning, secs) ==
    LET info == get_model_info(o.model, custom_models)
        timeout_warning ==
            "Droid execution timed out after " \o ToString(secs) \o " seconds"
        combined_warning ==
            IF IsSome(droid_warning) /\ IsSome(info.warning)
            THEN Unwrap(droid_warning) \o "\n" \o Unwrap(info.warning)
                     \o "\n" \o timeout_warning
            ELSE IF IsSome(droid_warning)
            THEN Unwrap(droid_warning) \o "\n" \o timeout_warning
            ELSE IF IsSome(info.warning)
            THEN Unwrap(info.warning) \o "\n" \o timeout_warning
            ELSE timeout_warning
    IN  [success |-> FALSE, session_id |-> "", agent_messages |-> "",
         agent_messages_truncated |-> FALSE, all_messages |-> << >>,
         all_messages_truncated |-> FALSE,
         error |-> Some("Timeout after " \o ToString(secs) \o " seconds"),
         warnings |-> Some(combined_warning), model_info |-> info.display]

(***************************************************************************)
(* State                                                                   *)
(***************************************************************************)
VARIABLES
    opts,               \* the Options value of the call
    cfg,                \* the cached ServerConfig
    custom_models,      \* the cached FactoryConfig's custom_models
    droid_warning,      \* the warning read_droid_md returned
    droid_content,      \* the content of DROID.md read_droid_md returned
    pc,                 \* where the call is: request, called, launch, drain, wait, join, returned
    timeout_secs,       \* the duration of the race
    result,             \* run_internal's DroidResult under construction
    all_messages_size,  \* run_internal's running archive size
    status,             \* the exit status wait returned
    lines,              \* the stdout lines read so far (history)
    exit_path,          \* which return statement produced ret (history)
    ret,                \* what was returned: <<"Ok", DroidResult>> or <<"Err", message>>
    args,               \* the DroidArgs of the tool call (None: run is called directly)
    config_file,        \* droid-mcp.config.json as load_server_config found it
    cmd,                \* the argument sequence handed to spawn
    child,              \* the child process: none, running, exited, killed
    spawns,             \* how many times spawn was called
    stderr_task,        \* the stderr task: none, running, done, joined
    stderr_buffer,      \* the buffer of the stderr task (its stderr_output)
    prog,               \* what the child has still to write, in its order
    pipes               \* the two pipes, their write ends, and the stdout reader

vars ==
    <<opts, cfg, custom_models, droid_warning, droid_content, pc, timeout_secs,
      result, all_messages_size, status, lines, exit_path, ret, args, config_file, cmd,
      child, spawns, stderr_task, stderr_buffer, prog, pipes>>

\* the pipes and the stderr task's side of them
io == <<prog, pipes, stderr_buffer>>

\* what a call never changes: the request and the cached configuration
statics == <<cfg, custom_models, droid_warning, droid_content, args, config_file>>

BoundedSeq(S, n) == UNION {[1..k -> S] : k \in 0..n}

DroidMdWarning == "DROID.md contains invalid UTF-8 and was skipped."

\* The Options fields the model varies are its parameters; the others have
\* the value DroidServer::droid gives them when the request leaves them out.
Options(timeout, auto, model) ==
    [prompt |-> Some("fix the bug"), file |-> None, working_dir |-> "/w",
     session_id |-> None, auto |-> auto, model |-> model,
     enabled_tools |-> None, disabled_tools |-> None, additional_args |-> << >>,
     timeout_secs |-> timeout, reasoning_effort |-> None, use_spec |-> FALSE,
     spec_model |-> None, skip_permissions_unsafe |-> FALSE,
     output_format |-> None]

ServerConfig(timeout, default_auto, max_timeout, allow_high_autonomy) ==
    [timeout_secs |-> timeout, default_auto |-> default_auto,
     max_timeout_secs |-> max_timeout, allow_high_autonomy |-> allow_high_autonomy]

\* droid-mcp.config.json: whether it is there, whether serde_json decodes it,
\* and its keys (None: the key is absent)
ConfigFile(is_file, parses, timeout, default_auto, max_timeout, allow_high_autonomy) ==
    [is_file |-> is_file, parses |-> parses, timeout_secs |-> timeout,
     default_auto |-> default_auto, max_timeout_secs |-> max_timeout,
     allow_high_autonomy |-> allow_high_autonomy]

NoConfigFile == ConfigFile(FALSE, FALSE, None, None, None, None)

UnparsableConfigFile == ConfigFile(TRUE, FALSE, None, None, None, None)

ParsedConfigFile(timeout, default_auto, max_timeout, allow_high_autonomy) ==
    ConfigFile(TRUE, TRUE, timeout, default_auto, max_timeout, allow_high_autonomy)

load_server_config(file) ==
    IF file.is_file /\ file.parses
    THEN ServerConfig(file.timeout_secs, file.default_auto, file.max_timeout_secs,
                      IF IsSome(file.allow_high_autonomy)
                      THEN Unwrap(file.allow_high_autonomy) ELSE FALSE)
    ELSE ServerConfig(None, None, None, TRUE)

InitCall ==
    /\ timeout_secs = 0
    /\ result = None
    /\ all_messages_size = 0
    /\ status = None
    /\ lines = << >>
    /\ exit_path = "none"
    /\ ret = None
    /\ cmd = << >>
    /\ child = "none"
    /\ spawns = 0
    /\ stderr_task = "none"
    /\ stderr_buffer = ""

\* The pipes as a record: the lines in flight on each, whether the child
\* still holds the write end, how the stdout reader stands, and the lines
\* the stderr task has taken from its pipe (history).
Pipes(stdout, stderr, stdout_open, stderr_open, reader) ==
    [stdout |-> stdout, stderr |-> stderr, stdout_open |-> stdout_open,
     stderr_open |-> stderr_open, reader |-> reader, stderr_read |-> << >>]

\* Where the child's writes are not followed one by one, the lines the
\* supervisor reads are chosen when it reads them.
NoProgram ==
    /\ prog = << >>
    /\ pipes = Pipes(<< >>, << >>, FALSE, FALSE, "reading")

\* The aggregation under the default request: only the high-autonomy switch
\* of the configuration varies (no file: on; a file without the key: off).
Init ==
    /\ pc = "called"
    /\ args = None
    /\ opts = Options(None, None, None)
    /\ config_file \in {NoConfigFile, ParsedConfigFile(None, None, None, None)}
    /\ cfg = load_server_config(config_file)
    /\ custom_models = <<GptModel>>
    /\ droid_warning = None
    /\ droid_content = None
    /\ InitCall
    /\ NoProgram

\* The call under varied requests and configurations.
InitRun ==
    /\ pc = "called"
    /\ args = None
    /\ opts \in {Options(t, None, None) : t \in {None, Some(1), Some(4000)}}
    /\ config_file \in {ParsedConfigFile(t, None, m, Some(a)) :
                           t \in {None, Some(30)}, m \in {None, Some(10)},
                           a \in BOOLEAN}
    /\ cfg = load_server_config(config_file)
    /\ custom_models \in {<< >>, <<GptModel>>}
    /\ droid_warning \in {None, Some(DroidMdWarning)}
    /\ droid_content = None
    /\ InitCall
    /\ NoProgram

(***************************************************************************)
(* DroidServer::droid: the validation of the request and the Options       *)
(***************************************************************************)
\* The DroidArgs fields the model varies are its parameters; the request
\* leaves the others out.
DroidArgs(prompt, file, auto, skip_permissions_unsafe, timeout) ==
    [prompt |-> prompt, file |-> file, auto |-> auto, session_id |-> None,
     cwd |-> None, model |-> None, enabled_tools |-> None,
     disabled_tools |-> None, timeout_secs |-> timeout,
     reasoning_effort |-> None, use_spec |-> None, spec_model |-> None,
     skip_permissions_unsafe |-> skip_permissions_unsafe, output_format |-> None]

\* Option::filter(|s| !s.is_empty())
FilterEmpty(o) == IF o = Some("") THEN None ELSE o

\* Option<bool>::unwrap_or(false)
UnwrapOrFalse(o) == IF IsSome(o) THEN Unwrap(o) ELSE FALSE

WorkingDir == "/w"

AutoLevels == {"low", "medium", "high"}

\* mutant: a request with both PROMPT and file passes
PromptFileError_AllowsBoth(a) ==
    IF a.prompt = None /\ a.file = None
    THEN Some("Either PROMPT or file parameter is required")
    ELSE IF IsSome(a.prompt) /\ a.file = None /\ Trim(Unwrap(a.prompt)) = ""
    THEN Some("PROMPT must be a non-empty, non-whitespace string")
    ELSE None

\* the match on (prompt, file)
PromptFileError(a) ==
    IF a.prompt = None /\ a.file = None
    THEN Some("Either PROMPT or file parameter is required")
    ELSE IF IsSome(a.prompt) /\ a.file = None /\ Trim(Unwrap(a.prompt)) = ""
    THEN Some("PROMPT must be a non-empty, non-whitespace string")
    ELSE IF IsSome(a.prompt) /\ IsSome(a.file)
    THEN Some("PROMPT and file are mutually exclusive, provide only one")
    ELSE None

\* The error the handler returns before it calls run, None when it calls
\* run; file_ok: the file reference resolves to a regular file.
InvalidParams(a, file_ok) ==
    IF IsSome(PromptFileError(a)) THEN PromptFileError(a)
    ELSE IF UnwrapOrFalse(a.skip_permissions_unsafe) /\ IsSome(a.auto)
    THEN Some("skip_permissions_unsafe cannot be combined with auto parameter")
    ELSE IF IsSome(a.file) /\ ~file_ok
    THEN Some("File does not exist or is not accessible: " \o WorkingDir \o "/"
                  \o Unwrap(a.file))
    ELSE IF IsSome(FilterEmpty(a.auto)) /\ Unwrap(a.auto) \notin AutoLevels
    THEN Some("Invalid auto level: '" \o Unwrap(a.auto)
                  \o "'. Must be one of: low, medium, high")
    ELSE None

BuildOptions(a) ==
    [prompt |-> a.prompt,
     file |-> IF IsSome(a.file) THEN Some(WorkingDir \o "/" \o Unwrap(a.file))
              ELSE None,
     working_dir |-> WorkingDir,
     session_id |-> FilterEmpty(a.session_id),
     auto |-> FilterEmpty(a.auto),
     model |-> a.model,
     enabled_tools |-> FilterEmpty(a.enabled_tools),
     disabled_tools |-> FilterEmpty(a.disabled_tools),
     additional_args |-> << >>,
     timeout_secs |-> a.timeout_secs,
     reasoning_effort |-> FilterEmpty(a.reasoning_effort),
     use_spec |-> UnwrapOrFalse(a.use_spec),
     spec_model |-> FilterEmpty(a.spec_model),
     skip_permissions_unsafe |-> UnwrapOrFalse(a.skip_permissions_unsafe),
     output_format |-> FilterEmpty(a.output_format)]

Droid(file_ok) ==
    /\ pc = "request"
    /\ LET e == InvalidParams(args, file_ok) IN
       IF IsSome(e)
       THEN /\ pc' = "returned"
            /\ exit_path' = "invalid_params"
            /\ ret' = <<"Err", Unwrap(e)>>
            /\ UNCHANGED opts
       ELSE /\ pc' = "called"
            /\ opts' = BuildOptions(args)
            /\ UNCHANGED <<exit_path, ret>>
    /\ UNCHANGED <<statics, io, timeout_secs, result, all_messages_size, status, lines,
                   cmd, child, spawns, stderr_task>>

(***************************************************************************)
(* run: everything before the race                                         *)
(***************************************************************************)
RunStart ==
    /\ pc = "called"
    /\ LET o == ApplyDefaults(opts, cfg, custom_models) IN
       /\ opts' = o
       /\ timeout_secs' = EffectiveTimeout(o, cfg)
       /\ IF HighAutonomyRejected(o, cfg)
          THEN /\ pc' = "returned"
               /\ exit_path' = "rejected"
               /\ ret' = <<"Err", HighAutonomyError>>
          ELSE /\ pc' = "launch"
               /\ UNCHANGED <<exit_path, ret>>
    /\ UNCHANGED <<statics, io, result, all_messages_size, status, lines, cmd, child,
                   spawns, stderr_task>>

(***************************************************************************)
(* run_internal                                                            *)
(***************************************************************************)
DroidBin == "droid"

Flag(name, o) == IF IsSome(o) THEN <<name, Unwrap(o)>> ELSE << >>

\* mutant: the autonomy flag is added whether or not the bypass flag was
CommandLine_BothFlags(o, prompt) ==
    <<"exec", "-o", IF IsSome(o.output_format) THEN Unwrap(o.output_format)
                    ELSE "stream-json",
      "--cwd", o.working_dir>>
    \o (IF o.skip_permissions_unsafe THEN <<"--skip-permissions-unsafe">>
        ELSE << >>)
    \o Flag("--auto", o.auto)
    \o Flag("-r", o.reasoning_effort)
    \o (IF o.use_spec THEN <<"--use-spec">> \o Flag("--spec-model", o.spec_model)
        ELSE << >>)
    \o (IF IsSome(o.model) THEN <<"--model", Unwrap(o.model).text>> ELSE << >>)
    \o Flag("--enabled-tools", o.enabled_tools)
    \o Flag("--disabled-tools", o.disabled_tools)
    \o Flag("--session-id", o.session_id)
    \o o.additional_args
    \o (IF IsSome(o.file) THEN <<"--file", Unwrap(o.file)>> ELSE <<prompt>>)

\* the arguments of the command, in the order they are added
CommandLine(o, prompt) ==
    <<"exec", "-o", IF IsSome(o.output_format) THEN Unwrap(o.output_format)
                    ELSE "stream-json",
      "--cwd", o.working_dir>>
    \o (IF o.skip_permissions_unsafe THEN <<"--skip-permissions-unsafe">>
        ELSE Flag("--auto", o.auto))
    \o Flag("-r", o.reasoning_effort)
    \o (IF o.use_spec THEN <<"--use-spec">> \o Flag("--spec-model", o.spec_model)
        ELSE << >>)
    \o (IF IsSome(o.model) THEN <<"--model", Unwrap(o.model).text>> ELSE << >>)
    \o Flag("--enabled-tools", o.enabled_tools)
    \o Flag("--disabled-tools", o.disabled_tools)
    \o Flag("--session-id", o.session_id)
    \o o.additional_args
    \o (IF IsSome(o.file) THEN <<"--file", Unwrap(o.file)>> ELSE <<prompt>>)

\* run, lines 469-479: the content of DROID.md as a system prompt, then the
\* prompt of the request
PromptToUse(content, o) ==
    (IF IsSome(content)
     THEN "<system_prompt>\n" \o Unwrap(content) \o "\n</system_prompt>\n\n"
     ELSE "")
    \o (IF IsSome(o.prompt) THEN Unwrap(o.prompt) ELSE "")

\* mutant: the process handle is dropped without a kill
KillOnDrop_Off(c) == c

\* cmd.kill_on_drop(true): dropping the handle of a running child kills it
KillOnDrop(c) == IF c = "running" THEN "killed" ELSE c

\* mutant: the diagnostic names the binary only
SpawnError_NoWorkingDir(droid_bin, working_dir) ==
    "Failed to spawn droid command '" \o droid_bin \o "'"

\* the context attached to a failed spawn
SpawnError(droid_bin, working_dir) ==
    "Failed to spawn droid command '" \o droid_bin \o "' in '" \o working_dir \o "'"

SpawnOk ==
    /\ pc = "launch"
    /\ LET info == get_model_info(opts.model, custom_models) IN
       result' = NewResult(MergeWarnings(droid_warning, info.warning), info.display)
    /\ all_messages_size' = 0
    /\ cmd' = CommandLine(opts, PromptToUse(droid_content, opts))
    /\ spawns' = spawns + 1
    /\ child' = "running"
    /\ stderr_task' = "running"
    /\ pc' = "drain"
    /\ UNCHANGED <<statics, io, opts, timeout_secs, status, lines, exit_path, ret>>

SpawnFail ==
    /\ pc = "launch"
    /\ cmd' = CommandLine(opts, PromptToUse(droid_content, opts))
    /\ spawns' = spawns + 1
    /\ pc' = "returned"
    /\ exit_path' = "spawn_failed"
    /\ ret' = <<"Err", SpawnError(DroidBin, opts.working_dir)>>
    /\ UNCHANGED <<statics, io, opts, timeout_secs, result, all_messages_size, status,
                   lines, child, stderr_task>>

\* read_line returned Ok(n), n > 0
ReadLine(line, bound) ==
    /\ pc = "drain"
    /\ Len(lines) < bound
    /\ LET st == ProcessLine([result |-> result,
                              all_messages_size |-> all_messages_size], line) IN
       /\ result' = st.result
       /\ all_messages_size' = st.all_messages_size
    /\ lines' = Append(lines, line)
    /\ UNCHANGED <<statics, io, opts, pc, timeout_secs, status, exit_path, ret, cmd,
                   child, spawns, stderr_task>>

\* read_line returned Ok(0)
ReadEof ==
    /\ pc = "drain"
    /\ pc' = "wait"
    /\ UNCHANGED <<statics, io, opts, timeout_secs, result, all_messages_size, status,
                   lines, exit_path, ret, cmd, child, spawns, stderr_task>>

\* read_line returned Err: logged, the loop breaks
ReadError ==
    /\ pc = "drain"
    /\ pc' = "wait"
    /\ UNCHANGED <<statics, io, opts, timeout_secs, result, all_messages_size, status,
                   lines, exit_path, ret, cmd, child, spawns, stderr_task>>

\* the child exits while the supervisor is still draining or waiting
ChildExit ==
    /\ pc \in {"drain", "wait"}
    /\ child = "running"
    /\ child' = "exited"
    /\ UNCHANGED <<statics, io, opts, pc, timeout_secs, result, all_messages_size,
                   status, lines, exit_path, ret, cmd, spawns, stderr_task>>

\* wait returns the status of the child, which has exited by then
Wait(st) ==
    /\ pc = "wait"
    /\ status' = st
    /\ child' = "exited"
    /\ pc' = "join"
    /\ UNCHANGED <<statics, io, opts, timeout_secs, result, all_messages_size, lines,
                   exit_path, ret, cmd, spawns, stderr_task>>

WaitFail ==
    /\ pc = "wait"
    /\ pc' = "returned"
    /\ exit_path' = "wait_failed"
    /\ ret' = <<"Err", "Failed to wait for droid command">>
    /\ child' = KillOnDrop(child)
    /\ UNCHANGED <<statics, io, opts, timeout_secs, result, all_messages_size, status,
                   lines, cmd, spawns, stderr_task>>

\* The stderr task is joined (errs: the lines the child wrote to stderr;
\* joined = FALSE: the JoinError branch), then the verdict, then Ok(result).
Join(errs, joined) ==
    /\ pc = "join"
    /\ LET stderr_output == IF joined THEN StderrTask(errs) ELSE "" IN
       result' = Verdict(result, status, stderr_output)
    /\ stderr_task' = "joined"
    /\ stderr_buffer' = IF joined THEN StderrTask(errs) ELSE ""
    /\ pc' = "returned"
    /\ exit_path' = "verdict"
    /\ ret' = <<"Ok", result'>>
    /\ UNCHANGED <<statics, prog, pipes, opts, timeout_secs, all_messages_size,
                   status, lines, cmd, child, spawns>>

(***************************************************************************)
(* run: the deadline wins the race.  It can fire at any await point of     *)
(* run_internal; what the dropped future held stays in result and lines    *)
(* as history only, and the process handle is dropped with the future.     *)
(***************************************************************************)
\* mutant: only the drain is raced against the deadline
RaceScope_DrainOnly == {"drain"}

\* the await points of run_internal, all inside tokio::time::timeout
RaceScope == {"drain", "wait", "join"}

Timeout ==
    /\ pc \in RaceScope
    /\ pc' = "returned"
    /\ exit_path' = "timeout"
    /\ status' = None
    /\ child' = KillOnDrop(child)
    /\ ret' = <<"Ok", TimeoutResult(opts, custom_models, droid_warning, timeout_secs)>>
    /\ UNCHANGED <<statics, io, opts, timeout_secs, result, all_messages_size, lines,
                   cmd, spawns, stderr_task>>

Step(universe, bound) ==
    \/ RunStart
    \/ SpawnOk
    \/ SpawnFail
    \/ \E line \in universe : ReadLine(line, bound)
    \/ ReadEof
    \/ ReadError
    \/ \E st \in ExitStatuses : Wait(st)
    \/ WaitFail
    \/ \E errs \in BoundedSeq(StderrLines, MaxStderrLines), joined \in BOOLEAN :
           Join(errs, joined)
    \/ Timeout

Next == Step(Lines, MaxLines)

NextCaps == Step(CapLines, MaxCapLines)

NextRun == Step(Lines, MaxLinesRun)

\* the verdict over every event shape
Spec == Init /\ [][Next]_vars

\* the two byte caps
SpecCaps == Init /\ [][NextCaps]_vars

NextIndep == Step(IndepLines, MaxIndepLines)

\* the same call over the lines that reach one cap and not the other
SpecIndep == Init /\ [][NextIndep]_vars

NextShapes == Step(ShapeLines, MaxShapeLines)

\* the same call over documents of every shape
SpecShapes == Init /\ [][NextShapes]_vars

\* the call under varied requests and configurations
SpecRun == InitRun /\ [][NextRun]_vars

\* The tool call: the request is in, nothing is validated yet and the
\* Options are not built.
ServerArgs ==
    {DroidArgs(p, f, a, s, t) :
        p \in {None, Some("  "), Some("fix the bug")},
        f \in {None, Some("task.md")},
        a \in {None, Some(""), Some("low"), Some("high"), Some("max")},
        s \in {None, Some(TRUE)},
        t \in {None, Some(5000)}}

ServerConfigFiles ==
    {NoConfigFile, UnparsableConfigFile}
    \cup {ParsedConfigFile(None, d, m, a) :
              d \in {None, Some("low")}, m \in {None, Some(7200)},
              a \in {None, Some(TRUE), Some(FALSE)}}

InitServer ==
    /\ pc = "request"
    /\ args \in ServerArgs
    /\ opts = None
    /\ config_file \in ServerConfigFiles
    /\ cfg = load_server_config(config_file)
    /\ custom_models = <<GptModel>>
    /\ droid_warning = None
    /\ droid_content = None
    /\ InitCall
    /\ NoProgram

\* the stdout lines of a tool call
ServerLines == {EvCompletion, EvError}

NextServer ==
    \/ \E file_ok \in BOOLEAN : Droid(file_ok)
    \/ ChildExit
    \/ Step(ServerLines, MaxLinesServer)

\* the tool call, from the request to what run returns
SpecServer == InitServer /\ [][NextServer]_vars

\* The same under the scheduling the runtime guarantees: the handler and run
\* proceed, spawn returns, and the timer of the race fires.  Nothing is
\* assumed of the child: it may stop writing, never close a pipe, never exit.
SpecServerLive ==
    /\ SpecServer
    /\ WF_vars(\E file_ok \in BOOLEAN : Droid(file_ok))
    /\ WF_vars(RunStart)
    /\ WF_vars(SpawnOk \/ SpawnFail)
    /\ WF_vars(Timeout)

(***************************************************************************)
(* The child's writes followed one by one.  The child writes its lines in  *)
(* an order it has fixed (prog names the stream of each write), blocks     *)
(* while the pipe it writes to is full, and when it has written them all   *)
(* it closes both streams and exits.  The stdout drain and the stderr task *)
(* each take lines from their own pipe.  A pipe holds whole lines here,    *)
(* PipeCapacity of them.                                                   *)
(***************************************************************************)
\* a completion with a session id, 62 bytes of text and 116 serialized bytes
EvCompletionLong ==
    Line("{\"type\":\"completion\",\"finalText\":\"" \o F62
             \o "\",\"session_id\":\"s1\"}\n", TRUE, TRUE,
         Some("s1"), Some("completion"), None, Some(F62), None, None)

\* a line whose bytes are not UTF-8: read_line returns Err for it
InvalidUtf8Line == NotJson("<bytes that are not UTF-8>\n")

PipeOutLines == {EvCompletionLong, InvalidUtf8Line}

InitPipes ==
    /\ pc = "called"
    /\ args = None
    /\ opts = Options(None, None, None)
    /\ config_file = NoConfigFile
    /\ cfg = load_server_config(config_file)
    /\ custom_models = <<GptModel>>
    /\ droid_warning = None
    /\ droid_content = None
    /\ InitCall
    /\ prog \in BoundedSeq({"stdout", "stderr"}, MaxWrites)
    /\ pipes = Pipes(<< >>, << >>, TRUE, TRUE, "reading")

ChildWriteStdout(line) ==
    /\ child = "running"
    /\ prog # << >> /\ Head(prog) = "stdout"
    /\ Len(pipes.stdout) < PipeCapacity
    /\ prog' = Tail(prog)
    /\ pipes' = [pipes EXCEPT !.stdout = Append(@, line)]
    /\ UNCHANGED <<statics, stderr_buffer, opts, pc, timeout_secs, result,
                   all_messages_size, status, lines, exit_path, ret, cmd, child,
                   spawns, stderr_task>>

ChildWriteStderr(line) ==
    /\ child = "running"
    /\ prog # << >> /\ Head(prog) = "stderr"
    /\ Len(pipes.stderr) < PipeCapacity
    /\ prog' = Tail(prog)
    /\ pipes' = [pipes EXCEPT !.stderr = Append(@, line)]
    /\ UNCHANGED <<statics, stderr_buffer, opts, pc, timeout_secs, result,
                   all_messages_size, status, lines, exit_path, ret, cmd, child,
                   spawns, stderr_task>>

\* the child has written everything: it closes both streams and exits
ChildFinish ==
    /\ child = "running"
    /\ prog = << >>
    /\ child' = "exited"
    /\ pipes' = [pipes EXCEPT !.stdout_open = FALSE, !.stderr_open = FALSE]
    /\ UNCHANGED <<statics, prog, stderr_buffer, opts, pc, timeout_secs, result,
                   all_messages_size, status, lines, exit_path, ret, cmd, spawns,
                   stderr_task>>

\* read_line returned Ok(n), n > 0, with the line at the head of the pipe
PipeReadLine ==
    /\ pc = "drain"
    /\ pipes.stdout # << >> /\ Head(pipes.stdout) # InvalidUtf8Line
    /\ LET st == ProcessLine([result |-> result,
                              all_messages_size |-> all_messages_size],
                             Head(pipes.stdout)) IN
       /\ result' = st.result
       /\ all_messages_size' = st.all_messages_size
    /\ lines' = Append(lines, Head(pipes.stdout))
    /\ pipes' = [pipes EXCEPT !.stdout = Tail(@)]
    /\ UNCHANGED <<statics, prog, stderr_buffer, opts, pc, timeout_secs, status,
                   exit_path, ret, cmd, child, spawns, stderr_task>>

\* read_line returned Err: the bytes are consumed, the loop breaks, and the
\* reader stays open and unread until run_internal returns
PipeReadError ==
    /\ pc = "drain"
    /\ pipes.stdout # << >> /\ Head(pipes.stdout) = InvalidUtf8Line
    /\ pipes' = [pipes EXCEPT !.stdout = Tail(@), !.reader = "error"]
    /\ pc' = "wait"
    /\ UNCHANGED <<statics, prog, stderr_buffer, opts, timeout_secs, result,
                   all_messages_size, status, lines, exit_path, ret, cmd, child,
                   spawns, stderr_task>>

\* read_line returned Ok(0): the pipe is empty and its write end is closed
PipeReadEof ==
    /\ pc = "drain"
    /\ pipes.stdout = << >> /\ ~pipes.stdout_open
    /\ pipes' = [pipes EXCEPT !.reader = "eof"]
    /\ pc' = "wait"
    /\ UNCHANGED <<statics, prog, stderr_buffer, opts, timeout_secs, result,
                   all_messages_size, status, lines, exit_path, ret, cmd, child,
                   spawns, stderr_task>>

\* one turn of the stderr task's loop on a line it has read
StderrAppend(stderr_output, line) ==
    IF Len(stderr_output) + Len(line) <= MAX_STDERR_SIZE
    THEN stderr_output \o line
    ELSE stderr_output

\* the stderr task reads while the drain of stdout is still going on
StderrTaskReads_AfterDrain == stderr_task = "running" /\ pc # "drain"

\* the stderr task was spawned before the drain and reads on its own
StderrTaskReads == stderr_task = "running"

StderrTaskRead ==
    /\ StderrTaskReads
    /\ pipes.stderr # << >>
    /\ stderr_buffer' = StderrAppend(stderr_buffer, Head(pipes.stderr))
    /\ pipes' = [pipes EXCEPT !.stderr = Tail(@),
                              !.stderr_read = Append(@, Head(pipes.stderr))]
    /\ UNCHANGED <<statics, prog, opts, pc, timeout_secs, result,
                   all_messages_size, status, lines, exit_path, ret, cmd, child,
                   spawns, stderr_task>>

StderrTaskEof ==
    /\ StderrTaskReads
    /\ pipes.stderr = << >> /\ ~pipes.stderr_open
    /\ stderr_task' = "done"
    /\ UNCHANGED <<statics, io, opts, pc, timeout_secs, result, all_messages_size,
                   status, lines, exit_path, ret, cmd, child, spawns>>

\* child.wait() returns once the child has exited
PipeWait ==
    /\ pc = "wait"
    /\ child = "exited"
    /\ status' \in ExitStatuses
    /\ pc' = "join"
    /\ UNCHANGED <<statics, io, opts, timeout_secs, result, all_messages_size, lines,
                   exit_path, ret, cmd, child, spawns, stderr_task>>

\* the join handle resolves once the stderr task has finished
PipeJoin ==
    /\ pc = "join"
    /\ stderr_task = "done"
    /\ result' = Verdict(result, status, stderr_buffer)
    /\ stderr_task' = "joined"
    /\ pc' = "returned"
    /\ exit_path' = "verdict"
    /\ ret' = <<"Ok", result'>>
    /\ UNCHANGED <<statics, io, opts, timeout_secs, all_messages_size, status, lines,
                   cmd, child, spawns>>

ChildStep ==
    \/ \E line \in PipeOutLines : ChildWriteStdout(line)
    \/ \E line \in StderrLines : ChildWriteStderr(line)
    \/ ChildFinish

PipeProgress ==
    \/ RunStart
    \/ SpawnOk
    \/ ChildStep
    \/ PipeReadLine
    \/ PipeReadError
    \/ PipeReadEof
    \/ StderrTaskRead
    \/ StderrTaskEof
    \/ PipeWait
    \/ PipeJoin

\* The deadline of the race.  It is long against the steps of the child and
\* of the supervisor: it fires only when none of them can take a step.
PipeDeadline ==
    /\ ~ENABLED PipeProgress
    /\ Timeout

NextPipes ==
    \/ PipeProgress
    \/ PipeDeadline

SpecPipes == InitPipes /\ [][NextPipes]_vars

\* The same under fair scheduling: the child, the drain, the stderr task and
\* the timer each take their step when they can.
SpecPipesLive ==
    /\ SpecPipes
    /\ WF_vars(NextPipes)

(***************************************************************************)
(* run called with every combination of the fields the command is built    *)
(* from, followed up to the spawn                                          *)
(***************************************************************************)
LaunchOptions ==
    {[Options(None, auto, None) EXCEPT
          !.prompt = pf[1], !.file = pf[2],
          !.output_format = fmt, !.skip_permissions_unsafe = skip,
          !.reasoning_effort = effort, !.use_spec = spec[1],
          !.spec_model = spec[2], !.enabled_tools = tools[1],
          !.disabled_tools = tools[2], !.session_id = sid,
          !.additional_args = extra] :
        pf \in {<<Some("fix the bug"), None>>, <<None, Some("/w/task.md")>>,
                <<Some("fix the bug"), Some("/w/task.md")>>},
        auto \in {None, Some("low")},
        fmt \in {None, Some("json")},
        skip \in BOOLEAN,
        effort \in {None, Some("medium")},
        spec \in {FALSE, TRUE} \X {None, Some("spec-1")},
        tools \in {None, Some("Read")} \X {None, Some("Execute")},
        sid \in {None, Some("sid-9")},
        extra \in {<< >>, <<"--verbose", "-x">>}}

InitLaunch ==
    /\ pc = "called"
    /\ args = None
    /\ opts \in LaunchOptions
    /\ config_file = NoConfigFile
    /\ cfg = load_server_config(config_file)
    /\ custom_models \in {<< >>, <<GptModel>>}
    /\ droid_warning = None
    /\ droid_content \in {None, Some("Be brief.")}
    /\ InitCall
    /\ NoProgram

NextLaunch ==
    \/ RunStart
    \/ SpawnOk
    \/ SpawnFail

\* the call from its entry to the spawn of the command
SpecLaunch == InitLaunch /\ [][NextLaunch]_vars

(***************************************************************************)
(* Vocabulary of the properties: what a stream contains, read off the      *)
(* history of the lines                                                    *)
(***************************************************************************)
\* the line was parsed as a JSON document
IsParsed(l) == Trim(l.raw) # "" /\ l.json

Parsed(ls) == SelectSeq(ls, IsParsed)

IsErrorEvent(l) == IsParsed(l) /\ l.type = Some("error")

HasErrorEvent(ls) == \E i \in 1..Len(ls) : IsErrorEvent(ls[i])

\* the agent-visible text an event carries, if any
TextOf(l) ==
    IF ~IsParsed(l) THEN None
    ELSE IF l.type = Some("completion") THEN l.finalText
    ELSE IF l.type = Some("message") /\ l.role = Some("assistant") THEN l.text
    ELSE None

\* a completion event with a non-empty finalText
IsCompletionWithText(l) ==
    IsParsed(l) /\ l.type = Some("completion")
        /\ IsSome(l.finalText) /\ Unwrap(l.finalText) # ""

HasNonEmptySid(l) ==
    IsParsed(l) /\ IsSome(l.session_id) /\ Unwrap(l.session_id) # ""

\* t occurs in s
Contains(s, t) ==
    \E i \in 1..(Len(s) + 1) :
        i + Len(t) - 1 <= Len(s) /\ SubSeq(s, i, i + Len(t) - 1) = t

\* run_internal ran to its verdict and run returned its result
ReturnedVerdict == pc = "returned" /\ exit_path = "verdict"

\* the DroidResult run returned
Returned == ret[2]

NoSessionIdError == "No session_id received from droid"
NoAgentMessagesError == "No agent messages received from droid"

(***************************************************************************)
(* C1.  If a parsed event has type "error", success is false from the      *)
(* moment the event is processed: in every later state of the drain, at    *)
(* wait and join, and in the result run returns, whatever the exit status  *)
(* and whatever events follow.                                             *)
(***************************************************************************)
C1_ErrorEventFails ==
    HasErrorEvent(lines) =>
        /\ pc \in {"drain", "wait", "join"} => ~result.success
        /\ pc = "returned" /\ ret[1] = "Ok" => ~Returned.success

\* an error event, then a completion with text and session id, then exit 0
C1_Witness ==
    /\ ReturnedVerdict
    /\ status.success
    /\ \E i, j \in 1..Len(lines) :
           i < j /\ IsErrorEvent(lines[i]) /\ IsCompletionWithText(lines[j])
               /\ HasNonEmptySid(lines[j])
    /\ ~Returned.success

(***************************************************************************)
(* C2.  Every result returned with success = false carries a non-empty     *)
(* error message.  (The code returns success = false with no error for an  *)
(* error event without a string message, a session id and exit status 0.)  *)
(***************************************************************************)
C2_FailureHasReason ==
    pc = "returned" /\ ret[1] = "Ok" /\ ~Returned.success =>
        IsSome(Returned.error) /\ Unwrap(Returned.error) # ""

(***************************************************************************)
(* C3, as stated.  A stream with a completion event carrying a non-empty   *)
(* finalText and a non-empty session_id, and exit status 0, gives success  *)
(* = true, agent_messages = that finalText, session_id = that session id.  *)
(***************************************************************************)
C3_Original ==
    ReturnedVerdict /\ status.success =>
        \A i \in 1..Len(lines) :
            IsCompletionWithText(lines[i]) /\ HasNonEmptySid(lines[i]) =>
                /\ Returned.success
                /\ Returned.agent_messages = Unwrap(lines[i].finalText)
                /\ Returned.session_id = Unwrap(lines[i].session_id)

\* no other event of the stream carries a non-empty text
OnlyText(ls, i) ==
    \A j \in 1..Len(ls) :
        j # i => (TextOf(ls[j]) = None \/ TextOf(ls[j]) = Some(""))

\* no earlier event of the stream carries a non-empty session id
NoEarlierSid(ls, i) == \A j \in 1..(i - 1) : ~HasNonEmptySid(ls[j])

(***************************************************************************)
(* C3, amended.  Such a stream gives success = true when it has no event   *)
(* of type "error"; agent_messages equals the finalText when no other      *)
(* event carries text and the finalText is within the cap; session_id      *)
(* equals the event's when no earlier event carries a session id.          *)
(***************************************************************************)
C3_CompletionSucceeds ==
    ReturnedVerdict /\ status.success /\ ~HasErrorEvent(lines) =>
        \A i \in 1..Len(lines) :
            IsCompletionWithText(lines[i]) /\ HasNonEmptySid(lines[i]) =>
                /\ Returned.success
                /\ OnlyText(lines, i)
                       /\ Len(Unwrap(lines[i].finalText)) <= MAX_AGENT_MESSAGES_SIZE
                   => Returned.agent_messages = Unwrap(lines[i].finalText)
                /\ NoEarlierSid(lines, i)
                   => Returned.session_id = Unwrap(lines[i].session_id)

C3_Witness ==
    /\ ReturnedVerdict
    /\ status.success
    /\ ~HasErrorEvent(lines)
    /\ Len(lines) >= 2
    /\ \E i \in 1..Len(lines) :
           /\ IsCompletionWithText(lines[i]) /\ HasNonEmptySid(lines[i])
           /\ OnlyText(lines, i) /\ NoEarlierSid(lines, i)
    /\ Returned.success
    /\ Returned.agent_messages = "a"
    /\ Returned.session_id = "s1"

\* an event that carries agent-visible text (a finalText or an assistant text)
HasTextEvent(ls) == \E i \in 1..Len(ls) : IsSome(TextOf(ls[i]))

(***************************************************************************)
(* C4, as stated.  Exit status 0 and no event with agent-visible text give *)
(* success = false with the "No agent messages received" error.            *)
(***************************************************************************)
C4_Original ==
    ReturnedVerdict /\ status.success /\ ~HasTextEvent(lines) =>
        /\ ~Returned.success
        /\ Returned.error = Some(NoAgentMessagesError)

(***************************************************************************)
(* C4, amended.  Exit status 0 and no event with agent-visible text give   *)
(* success = false; the error is the "No agent messages received" reason   *)
(* when a non-empty session id was received and no event of type "error"   *)
(* was parsed.                                                             *)
(***************************************************************************)
C4_NoTextFails ==
    ReturnedVerdict /\ status.success /\ ~HasTextEvent(lines) =>
        /\ ~Returned.success
        /\ (\E i \in 1..Len(lines) : HasNonEmptySid(lines[i])) /\ ~HasErrorEvent(lines)
           => Returned.error = Some(NoAgentMessagesError)

C4_Witness ==
    /\ ReturnedVerdict
    /\ status.success
    /\ ~HasTextEvent(lines)
    /\ ~HasErrorEvent(lines)
    /\ \E i \in 1..Len(lines) : HasNonEmptySid(lines[i])
    /\ Returned.error = Some(NoAgentMessagesError)

(***************************************************************************)
(* C5, as stated.  A non-success exit status after a completion event with *)
(* non-empty finalText gives success = false, an error, and agent_messages *)
(* that contains the completion text.                                      *)
(***************************************************************************)
C5_Original ==
    ReturnedVerdict /\ ~status.success =>
        \A i \in 1..Len(lines) :
            IsCompletionWithText(lines[i]) =>
                /\ ~Returned.success
                /\ IsSome(Returned.error)
                /\ Contains(Returned.agent_messages, Unwrap(lines[i].finalText))

(***************************************************************************)
(* C5, amended.  The same, with agent_messages containing the completion   *)
(* text unless the text buffer was truncated (agent_messages_truncated).   *)
(***************************************************************************)
C5_ExitStatusOverrides ==
    ReturnedVerdict /\ ~status.success =>
        \A i \in 1..Len(lines) :
            IsCompletionWithText(lines[i]) =>
                /\ ~Returned.success
                /\ IsSome(Returned.error)
                /\ ~Returned.agent_messages_truncated
                   => Contains(Returned.agent_messages, Unwrap(lines[i].finalText))

C5_Witness ==
    /\ ReturnedVerdict
    /\ ~status.success
    /\ ~HasErrorEvent(lines)
    /\ \E i \in 1..Len(lines) :
           IsCompletionWithText(lines[i]) /\ Unwrap(lines[i].finalText) = F64
    /\ ~Returned.agent_messages_truncated
    /\ Contains(Returned.agent_messages, F64)
    /\ ~Returned.success
    /\ IsSome(Returned.error)

(***************************************************************************)
(* Vocabulary of the cap properties                                        *)
(***************************************************************************)
\* run_internal holds a DroidResult: during the drain, at wait and join, and
\* (as returned) after the verdict
HasResult == pc \in {"drain", "wait", "join"} \/ ReturnedVerdict

\* the agent-visible text fragments of a stream, in stream order
RECURSIVE Fragments(_)
Fragments(ls) ==
    IF ls = << >> THEN << >>
    ELSE (IF IsSome(TextOf(Head(ls))) THEN <<Unwrap(TextOf(Head(ls)))>> ELSE << >>)
             \o Fragments(Tail(ls))

RECURSIVE SumLen(_)
SumLen(fs) == IF fs = << >> THEN 0 ELSE Len(Head(fs)) + SumLen(Tail(fs))

\* fragments joined by single newlines, an empty fragment adding nothing
RECURSIVE JoinLines(_)
JoinLines(fs) ==
    IF fs = << >> THEN ""
    ELSE LET front == JoinLines(SubSeq(fs, 1, Len(fs) - 1))
             last == fs[Len(fs)]
         IN  IF front # "" /\ last # "" THEN front \o "\n" \o last
             ELSE front \o last

\* fragment k does not fit behind the fragments before it
Unfit(fs, k) ==
    Len(JoinLines(SubSeq(fs, 1, k - 1))) + Len(fs[k]) > MAX_AGENT_MESSAGES_SIZE

\* the first fragment that does not fit (0: all fit)
FirstUnfit(fs) ==
    IF \E k \in 1..Len(fs) : Unfit(fs, k)
    THEN CHOOSE k \in 1..Len(fs) :
             Unfit(fs, k) /\ \A j \in 1..(k - 1) : ~Unfit(fs, j)
    ELSE 0

(***************************************************************************)
(* C6.  When the text fragments read so far exceed the visible-text cap in *)
(* total, agent_messages_truncated is true and agent_messages is the       *)
(* fragments before the first one that did not fit, followed by exactly    *)
(* one truncation marker: nothing is appended behind the marker.           *)
(***************************************************************************)
C6_TextTruncation ==
    HasResult =>
        LET fs == Fragments(lines)
            k == FirstUnfit(fs)
        IN  SumLen(fs) > MAX_AGENT_MESSAGES_SIZE =>
                /\ k > 0
                /\ result.agent_messages_truncated
                /\ result.agent_messages =
                       JoinLines(SubSeq(fs, 1, k - 1)) \o TRUNCATION_MARKER

\* two fragments were kept, the third did not fit, and a fourth that fits
\* behind the marker was read and not appended
C6_Witness ==
    /\ ReturnedVerdict
    /\ LET fs == Fragments(lines) IN
       /\ Len(fs) = 4
       /\ FirstUnfit(fs) = 3
       /\ fs[1] # "" /\ fs[2] # ""
       /\ Len(Returned.agent_messages) + Len(fs[4]) <= MAX_AGENT_MESSAGES_SIZE
       /\ Returned.agent_messages_truncated
       /\ Returned.agent_messages = fs[1] \o "\n" \o fs[2] \o TRUNCATION_MARKER

\* the events the archive takes: the parsed JSON objects
IsObjectEvent(l) == IsParsed(l) /\ l.object

ObjectEvents(ls) == SelectSeq(ls, IsObjectEvent)

RECURSIVE SumSize(_)
SumSize(es) == IF es = << >> THEN 0 ELSE SerializedSize(Head(es)) + SumSize(Tail(es))

\* the first event that pushes the running total over the archive cap
FirstOver(es) ==
    IF \E k \in 1..Len(es) : SumSize(SubSeq(es, 1, k)) > MAX_ALL_MESSAGES_SIZE
    THEN CHOOSE k \in 1..Len(es) :
             /\ SumSize(SubSeq(es, 1, k)) > MAX_ALL_MESSAGES_SIZE
             /\ \A j \in 1..(k - 1) : SumSize(SubSeq(es, 1, j)) <= MAX_ALL_MESSAGES_SIZE
    ELSE 0

(***************************************************************************)
(* C7.  When the events read so far exceed the archive cap in total,       *)
(* all_messages_truncated is true and all_messages is the prefix of the    *)
(* events before the first one that did not fit.  (The code appends every  *)
(* later event that fits the remaining budget.)                            *)
(***************************************************************************)
C7_ArchiveIsFittingPrefix ==
    HasResult =>
        LET es == ObjectEvents(lines)
            k == FirstOver(es)
        IN  SumSize(es) > MAX_ALL_MESSAGES_SIZE =>
                /\ result.all_messages_truncated
                /\ result.all_messages = SubSeq(es, 1, k - 1)

\* the session id of the first event that carries a non-empty one ("": none)
FirstSid(ls) ==
    IF \E i \in 1..Len(ls) : HasNonEmptySid(ls[i])
    THEN LET i == CHOOSE i \in 1..Len(ls) :
                      HasNonEmptySid(ls[i]) /\ \A j \in 1..(i - 1) : ~HasNonEmptySid(ls[j])
         IN  Unwrap(ls[i].session_id)
    ELSE ""

(***************************************************************************)
(* C8.  The session id is first-write-wins: at every point of the drain    *)
(* and in the returned result it is the session_id of the first parsed     *)
(* event that carries a non-empty one; later and empty ones change nothing.*)
(***************************************************************************)
C8_SessionIdFirstWins ==
    HasResult => result.session_id = FirstSid(lines)

\* an empty session id, then "s1", then "s2": the result has "s1"
C8_Witness ==
    /\ ReturnedVerdict
    /\ Len(lines) = 3
    /\ IsParsed(lines[1]) /\ lines[1].session_id = Some("")
    /\ HasNonEmptySid(lines[2]) /\ HasNonEmptySid(lines[3])
    /\ lines[2].session_id # lines[3].session_id
    /\ Returned.session_id = Unwrap(lines[2].session_id)

\* the drain of the parsed events alone
RECURSIVE Aggregate(_, _)
Aggregate(st, evs) ==
    IF evs = << >> THEN st ELSE Aggregate(ProcessEvent(st, Head(evs)), Tail(evs))

\* the aggregation state is that of the stream without its blank and
\* unparsable lines
C9_SameAsWithout ==
    pc \in {"drain", "wait", "join"} =>
        [result |-> result, all_messages_size |-> all_messages_size] =
            Aggregate([result |-> NewResult(result.warnings, result.model_info),
                       all_messages_size |-> 0],
                      Parsed(lines))

\* reading a blank or unparsable line changes nothing and the drain goes on
C9_JunkStep ==
    pc = "drain" /\ Len(lines') = Len(lines) + 1 /\ ~IsParsed(lines'[Len(lines')]) =>
        /\ result' = result
        /\ all_messages_size' = all_messages_size
        /\ pc' = "drain"

(***************************************************************************)
(* C9.  A blank line or a line that is not valid JSON never aborts the     *)
(* drain and leaves the aggregation state unchanged, so the state is that  *)
(* of the same stream without such lines.                                  *)
(***************************************************************************)
C9_JunkLinesIgnored == []C9_SameAsWithout /\ [][C9_JunkStep]_vars

\* a line that is not JSON, the completion, a blank line: the run succeeds
C9_Witness ==
    /\ ReturnedVerdict
    /\ Len(lines) = 3
    /\ lines[1] = GarbageLine
    /\ IsCompletionWithText(lines[2]) /\ HasNonEmptySid(lines[2])
    /\ lines[3] = BlankLine
    /\ Returned.success
    /\ Returned.session_id = "s1"
    /\ Returned.agent_messages = "a"
    /\ Len(Returned.all_messages) = 1

RECURSIVE JoinWith(_, _)
JoinWith(sep, parts) ==
    IF Len(parts) = 1 THEN parts[1]
    ELSE parts[1] \o sep \o JoinWith(sep, Tail(parts))

\* the warnings gathered before the deadline: project context, then model
WarningsSoFar ==
    (IF IsSome(droid_warning) THEN <<Unwrap(droid_warning)>> ELSE << >>)
        \o (LET w == get_model_info(opts.model, custom_models).warning
            IN  IF IsSome(w) THEN <<Unwrap(w)>> ELSE << >>)

(***************************************************************************)
(* C10.  When the deadline fires, run returns Ok with success = false,     *)
(* empty session id, text and archive, both truncation flags false, the    *)
(* error "Timeout after N seconds" with N the duration of the race, and    *)
(* the warnings gathered so far followed by the timeout notice.            *)
(***************************************************************************)
C10_TimeoutResult ==
    pc = "returned" /\ exit_path = "timeout" =>
        /\ ret[1] = "Ok"
        /\ ~Returned.success
        /\ Returned.session_id = ""
        /\ Returned.agent_messages = ""
        /\ Returned.all_messages = << >>
        /\ ~Returned.agent_messages_truncated
        /\ ~Returned.all_messages_truncated
        /\ Returned.error =
               Some("Timeout after " \o ToString(timeout_secs) \o " seconds")
        /\ Returned.warnings =
               Some(JoinWith("\n", WarningsSoFar \o
                       <<"Droid execution timed out after "
                             \o ToString(timeout_secs) \o " seconds">>))

\* the drain had recorded a session id, text and an event; both warnings are
\* present; the requested 4000 s were clamped to the configured 10 s
C10_Witness ==
    /\ pc = "returned" /\ exit_path = "timeout"
    /\ result.session_id # "" /\ result.agent_messages # ""
    /\ result.all_messages # << >>
    /\ Len(WarningsSoFar) = 2
    /\ opts.timeout_secs = Some(4000)
    /\ timeout_secs = 10
    /\ Returned.error = Some("Timeout after 10 seconds")
    /\ Returned.session_id = ""

(***************************************************************************)
(* Vocabulary of the properties of a tool call                             *)
(***************************************************************************)
\* run was entered: the handler accepted the request and built the Options
RunEntered == pc \notin {"request", "called"} /\ exit_path # "invalid_params"

\* the request reached the process launcher
ReachedLauncher == pc \in {"launch", "drain", "wait", "join"} \/ spawns > 0

NothingLaunched ==
    /\ spawns = 0 /\ child = "none" /\ cmd = << >>
    /\ stderr_task = "none" /\ result = None /\ lines = << >>

(***************************************************************************)
(* C11.  In every state after the deadline ended the race, the child       *)
(* launched by the call is not running: it was killed when the deadline    *)
(* fired, unless it had exited by itself before.  One process was          *)
(* launched, so none is left.                                              *)
(***************************************************************************)
C11_TimeoutKillsChild ==
    exit_path = "timeout" =>
        /\ pc = "returned"
        /\ spawns = 1
        /\ child \in {"killed", "exited"}

\* the deadline fired in the middle of the drain, with the child alive
C11_Witness ==
    /\ exit_path = "timeout"
    /\ Len(lines) = 1
    /\ status = None
    /\ child = "killed"

(***************************************************************************)
(* C12.  Every tool call eventually returns, whatever the child does (it   *)
(* may write nothing, never close its pipes and never exit): what is       *)
(* returned is Ok with a result or Err with a message.                     *)
(***************************************************************************)
C12_CallReturns ==
    <>(pc = "returned" /\ ret # None /\ ret[1] \in {"Ok", "Err"})

\* a child that wrote nothing, closed nothing and did not exit: the deadline
\* returned the call, and the stderr task was still reading
C12_Witness ==
    /\ pc = "returned" /\ exit_path = "timeout"
    /\ lines = << >>
    /\ child = "killed"
    /\ stderr_task = "running"
    /\ ret[1] = "Ok" /\ ~ret[2].success

(***************************************************************************)
(* C13.  The duration of the race is at most the ceiling of 3600 seconds   *)
(* for every requested timeout and every configuration, and 600 seconds    *)
(* when neither the request nor the configuration sets a timeout.  (The    *)
(* code takes the minimum of the request and the configured                *)
(* max_timeout_secs, which may itself exceed 3600.)                        *)
(***************************************************************************)
C13_DeadlineWithinCeiling ==
    ReachedLauncher =>
        /\ timeout_secs <= MAX_TIMEOUT_SECS
        /\ (args.timeout_secs = None /\ cfg.timeout_secs = None
               => timeout_secs = DEFAULT_TIMEOUT_SECS)

(***************************************************************************)
(* C14.  A request with both PROMPT and file, with neither, or with a      *)
(* whitespace-only PROMPT and no file, is rejected with an invalid-params  *)
(* error and nothing is launched; the Options of every request that        *)
(* reaches the launcher hold exactly one of prompt and file.               *)
(***************************************************************************)
C14_PromptXorFile ==
    /\ (/\ pc # "request"
        /\ \/ IsSome(args.prompt) /\ IsSome(args.file)
           \/ args.prompt = None /\ args.file = None
           \/ IsSome(args.prompt) /\ args.file = None
                  /\ Trim(Unwrap(args.prompt)) = "")
       => /\ pc = "returned" /\ exit_path = "invalid_params"
          /\ ret[1] = "Err"
          /\ NothingLaunched
    /\ ReachedLauncher => (opts.prompt = None) # (opts.file = None)

\* a request with both was rejected
C14_Witness ==
    /\ pc = "returned" /\ exit_path = "invalid_params"
    /\ args.prompt = Some("fix the bug") /\ IsSome(args.file)
    /\ ret = <<"Err", "PROMPT and file are mutually exclusive, provide only one">>

(***************************************************************************)
(* C15.  When the configuration forbids high autonomy and the request asks *)
(* for auto = high, run returns the Err of the gate; no process is         *)
(* spawned, no command is built and the race is never entered.             *)
(***************************************************************************)
C15_HighAutonomyGate ==
    RunEntered /\ args.auto = Some("high") /\ ~cfg.allow_high_autonomy =>
        /\ pc = "returned" /\ exit_path = "rejected"
        /\ ret = <<"Err", HighAutonomyError>>
        /\ NothingLaunched

\* the configuration file says allow_high_autonomy = false, the request high
C15_Witness ==
    /\ exit_path = "rejected"
    /\ args.auto = Some("high")
    /\ config_file.allow_high_autonomy = Some(FALSE)
    /\ spawns = 0

(***************************************************************************)
(* C16.  When the request names no autonomy level and does not set         *)
(* skip_permissions_unsafe, the command is launched without an --auto      *)
(* flag.  (The code fills in the configured default_auto, or "high".)      *)
(***************************************************************************)
C16_OmittedAutoIsReadOnly ==
    spawns > 0 /\ args.auto = None
        /\ ~UnwrapOrFalse(args.skip_permissions_unsafe)
    => \A i \in 1..Len(cmd) : cmd[i] # "--auto"

(***************************************************************************)
(* C17.  Unless the configuration file sets allow_high_autonomy = true (so *)
(* also when there is no file, or the file does not parse), a run whose    *)
(* autonomy level is high is rejected and nothing is launched.  (The code  *)
(* starts from allow_high_autonomy = true when no file is loaded.)         *)
(***************************************************************************)
C17_HighDisabledByDefault ==
    RunEntered /\ opts.auto = Some("high")
        /\ config_file.allow_high_autonomy # Some(TRUE)
    => /\ pc = "returned" /\ exit_path = "rejected"
       /\ NothingLaunched

(***************************************************************************)
(* C18.  A failed spawn makes run return an Err that names the binary and  *)
(* the working directory; no DroidResult exists, spawn was called once,    *)
(* and neither the stderr task nor the drain was started.  Spawn is never  *)
(* called a second time in a call.                                         *)
(***************************************************************************)
C18_SpawnFailure ==
    /\ spawns <= 1
    /\ exit_path = "spawn_failed" =>
        /\ pc = "returned"
        /\ ret[1] = "Err"
        /\ Contains(ret[2], "'" \o DroidBin \o "'")
        /\ Contains(ret[2], "'" \o opts.working_dir \o "'")
        /\ spawns = 1
        /\ child = "none"
        /\ result = None
        /\ stderr_task = "none"
        /\ lines = << >>

C18_Witness ==
    /\ exit_path = "spawn_failed"
    /\ spawns = 1
    /\ ret = <<"Err", "Failed to spawn droid command 'droid' in '/w'">>

(***************************************************************************)
(* C19.  The Options of every request that reaches the launcher never hold *)
(* both skip_permissions_unsafe and an autonomy level, and a request with  *)
(* skip_permissions_unsafe and auto is rejected with nothing launched.     *)
(* (run fills in a default autonomy level also when the bypass is set.)    *)
(***************************************************************************)
C19_BypassExcludesAuto ==
    /\ ReachedLauncher => ~(opts.skip_permissions_unsafe /\ IsSome(opts.auto))
    /\ pc # "request" /\ UnwrapOrFalse(args.skip_permissions_unsafe)
           /\ IsSome(args.auto)
       => exit_path = "invalid_params" /\ NothingLaunched

\* an error event with a string message was parsed
HasErrorMessage(ls) ==
    \E i \in 1..Len(ls) : IsErrorEvent(ls[i]) /\ IsSome(ls[i].message)

(***************************************************************************)
(* C20.  A result returned without a session id is failed, and when an     *)
(* error event with a message was parsed, or the exit status was not a     *)
(* success, its error is that earlier message and not the one about the    *)
(* missing session id.  (The code assigns the missing-session-id message   *)
(* unconditionally.)                                                       *)
(***************************************************************************)
C20_MissingSidKeepsError ==
    ReturnedVerdict /\ Returned.session_id = "" =>
        /\ ~Returned.success
        /\ (HasErrorMessage(lines) \/ ~status.success
               => Returned.error # Some(NoSessionIdError))

\* the error events that carry a string message, in stream order
IsErrorWithMessage(l) == IsErrorEvent(l) /\ IsSome(l.message)

ErrorMessages(ls) == SelectSeq(ls, IsErrorWithMessage)

(***************************************************************************)
(* C21.  When the stream holds two or more error events with a message,    *)
(* the error recorded during the drain is the one built from the first of  *)
(* them.  (The code assigns the error at every such event, so the last     *)
(* one stays.)                                                             *)
(***************************************************************************)
C21_FirstErrorWins ==
    pc \in {"drain", "wait", "join"} /\ Len(ErrorMessages(lines)) >= 2 =>
        result.error =
            Some("droid error: " \o Unwrap(ErrorMessages(lines)[1].message))

(* C22. With pipes of bounded capacity and a child that writes its lines to
   stdout and stderr in any order and then closes both and exits, the call
   never deadlocks under fair scheduling: unless the drain meets a read
   error, the verdict is reached and Ok(result) returned, and the deadline
   is never needed. *)
C22_NoPipeDeadlock ==
    <>(pipes.reader = "error" \/ (pc = "returned" /\ exit_path = "verdict"))

\* the verdict after both text caps were hit and a stderr line was dropped
C22_Witness ==
    /\ pc = "returned" /\ exit_path = "verdict"
    /\ pipes.reader = "eof"
    /\ Returned.agent_messages_truncated /\ Returned.all_messages_truncated
    /\ Len(pipes.stderr_read) >= 1
    /\ stderr_buffer # JoinWith("", pipes.stderr_read)

(* C23. When the drain stops on a read error, the partial results are kept:
   whatever the child does afterwards, the call returns a result that holds
   the session id, the agent text and the archived events accumulated
   before the error. *)
C23_PartialResultsKept ==
    pc = "returned" /\ pipes.reader = "error" =>
        /\ ret[1] = "Ok"
        /\ Returned.session_id = result.session_id
        /\ Returned.agent_messages = result.agent_messages
        /\ Returned.all_messages = result.all_messages

RECURSIVE ConcatLines(_)
\* the lines one after the other, as the child wrote them
ConcatLines(ls) ==
    IF ls = << >> THEN "" ELSE Head(ls) \o ConcatLines(Tail(ls))

(* C24. The stderr buffer never exceeds its cap and is a prefix of the
   stderr lines read so far: once a line has been dropped, every later line
   is dropped too, and nothing else is added to the buffer. *)
C24_StderrPrefix ==
    /\ Len(stderr_buffer) <= MAX_STDERR_SIZE
    /\ \E k \in 0..Len(pipes.stderr_read) :
           stderr_buffer = ConcatLines(SubSeq(pipes.stderr_read, 1, k))

\* C25 as stated: every parsed document is archived, whatever its shape
C25_Original ==
    HasResult /\ ~result.all_messages_truncated =>
        result.all_messages = Parsed(lines)

(* C25. Every stdout line that parses as a JSON object is appended to the
   archive while the archive is within its cap, whatever its type: recognized
   events, events of unknown type and objects without a type, in the order
   read.  A document that is not an object is not archived. *)
C25_ObjectsArchived ==
    HasResult /\ ~result.all_messages_truncated =>
        result.all_messages = ObjectEvents(lines)

\* an object without a type, a non-object document and an event of unknown
\* type were read, and the archive holds the two objects
C25_Witness ==
    /\ HasResult /\ ~result.all_messages_truncated
    /\ lines = <<EvBareSid, ScalarLine, EvSystem>>
    /\ result.all_messages = <<EvBareSid, EvSystem>>

\* what the verdict composes from a failed exit status and the stderr buffer
ExitMessage(st, stderr_output) ==
    "droid exited with code " \o CodeDebug(st.code)
        \o (IF stderr_output = "" THEN "" ELSE ". stderr: " \o stderr_output)

\* the verdict met a non-success exit status of a stream with a session id
FailedExitWithSid ==
    ReturnedVerdict /\ ~status.success /\ Returned.session_id # ""

(* C26. At the verdict of a call whose child exited without success and
   whose stream carried a session id: when an error event with a message
   was recorded, the final error is that agent-reported error; otherwise it
   is the exit-status message, which includes the stderr buffer exactly
   when the buffer is not empty. *)
C26_ExitErrorKeepsAgentError ==
    FailedExitWithSid =>
        IF ErrorMessages(lines) # << >>
        THEN \E i \in 1..Len(ErrorMessages(lines)) :
                 Returned.error =
                     Some("droid error: " \o Unwrap(ErrorMessages(lines)[i].message))
        ELSE Returned.error = Some(ExitMessage(status, stderr_buffer))

\* a failed exit after an error event with a message, stderr not empty
C26_Witness ==
    /\ FailedExitWithSid
    /\ ErrorMessages(lines) # << >>
    /\ stderr_buffer # ""
    /\ Returned.error = Some("droid error: m2")

(* C27. While no truncation has occurred, agent_messages is the non-empty
   text fragments of the stream (finalText of completion events and text of
   assistant messages, of no other event), in the order read, joined by
   single newlines, with no separator in front or behind. *)
C27_TextIsJoinedFragments ==
    HasResult /\ ~result.agent_messages_truncated =>
        /\ result.agent_messages = JoinLines(Fragments(lines))
        /\ ReturnedVerdict => Returned.agent_messages = JoinLines(Fragments(lines))

\* an assistant text, a user message and a completion were read, and the
\* returned text is the two agent fragments in that order
C27_Witness ==
    /\ ReturnedVerdict
    /\ lines = <<EvAssistant, EvUser, EvCompletion>>
    /\ Returned.agent_messages = "bb\na"

(* C28. At every point of the drain the byte length of agent_messages,
   separating newlines included, is at most the visible-text cap while the
   text is not truncated, and at most the cap plus the length of the marker
   afterwards; the archive's size counter is the sum of the serialized sizes
   of the archived events and is at most the archive cap. *)
C28_SizesWithinCaps ==
    pc \in {"drain", "wait", "join"} =>
        /\ ~result.agent_messages_truncated =>
               Len(result.agent_messages) <= MAX_AGENT_MESSAGES_SIZE
        /\ result.agent_messages_truncated =>
               Len(result.agent_messages)
                   <= MAX_AGENT_MESSAGES_SIZE + Len(TRUNCATION_MARKER)
        /\ all_messages_size = SumSize(result.all_messages)
        /\ all_messages_size <= MAX_ALL_MESSAGES_SIZE

(* C29. The success flag and both truncation flags are monotonic over the
   life of a run: the result starts with success true and no truncation,
   and no step of the drain or of the verdict sets success back to true or
   a truncation flag back to false. *)
C29_FlagsMonotonic ==
    [][/\ (pc # "drain" /\ pc' = "drain") =>
              /\ result'.success
              /\ ~result'.agent_messages_truncated
              /\ ~result'.all_messages_truncated
       /\ pc \in {"drain", "wait", "join"} =>
              /\ ~result.success => ~result'.success
              /\ result.agent_messages_truncated => result'.agent_messages_truncated
              /\ result.all_messages_truncated => result'.all_messages_truncated
      ]_vars

\* the verdict of a run that failed at its first event and then hit both
\* caps, with a text that fits read after all three flags had changed
C29_Witness ==
    /\ ReturnedVerdict
    /\ lines = <<EvError, EvCompletionBig, EvCompletionBig, EvCompletion>>
    /\ ~Returned.success
    /\ Returned.agent_messages_truncated /\ Returned.all_messages_truncated

(* C30. Every result returned with success = true comes from a child that
   exited with a success status and a stream without any event of type
   error, and has a non-empty session_id, a non-empty agent_messages and no
   error.  Conversely the deadline firing, and a missing session id or a
   missing agent text after a clean exit, give success = false. *)
C30_SuccessMeansAllSignals ==
    pc = "returned" /\ ret[1] = "Ok" =>
        /\ Returned.success =>
               /\ exit_path = "verdict"
               /\ status.success
               /\ ~HasErrorEvent(lines)
               /\ Returned.session_id # ""
               /\ Returned.agent_messages # ""
               /\ Returned.error = None
        /\ exit_path = "timeout" => ~Returned.success
        /\ (/\ exit_path = "verdict"
            /\ status.success
            /\ (Returned.session_id = "" \/ Returned.agent_messages = ""))
               => ~Returned.success

\* a successful result: a session id from an object without a type, an
\* ignored user message, the text from a completion, a clean exit
C30_Witness ==
    /\ ReturnedVerdict
    /\ Returned.success
    /\ lines = <<EvBareSid, EvUser, EvCompletion>>
    /\ status.success

(* C31. The high-autonomy gate rejects a request only if the request itself
   asks for auto = high: a request that omits auto, with or without
   skip_permissions_unsafe, is never rejected with the error of the gate,
   whatever the configuration. *)
C31_GateOnlyOnRequestedHigh ==
    pc = "returned" /\ exit_path = "rejected" => args.auto = Some("high")

\* the step reads one more line in the drain
DrainStep == pc = "drain" /\ Len(lines') = Len(lines) + 1

\* the line that step reads
LineRead == lines'[Len(lines')]

\* What a drain step does to the archive, told from the archive and the
\* line alone: an object that fits is appended and counted, one that does
\* not fit sets the archive's flag, anything else changes nothing.
ArchiveStepAlone ==
    LET fits == all_messages_size + SerializedSize(LineRead) <= MAX_ALL_MESSAGES_SIZE
    IN  IF IsObjectEvent(LineRead) /\ fits
        THEN /\ result'.all_messages = Append(result.all_messages, LineRead)
             /\ all_messages_size' = all_messages_size + SerializedSize(LineRead)
             /\ result'.all_messages_truncated = result.all_messages_truncated
        ELSE /\ result'.all_messages = result.all_messages
             /\ all_messages_size' = all_messages_size
             /\ result'.all_messages_truncated =
                    (result.all_messages_truncated \/ IsObjectEvent(LineRead))

\* What a drain step does to the text, told from the text and the line
\* alone: before the truncation a fragment that leaves room for its separator
\* is appended and one over the cap puts the marker; after it, and for a
\* line without text, nothing changes.
TextStepAlone ==
    LET t == TextOf(LineRead)
        room == MAX_AGENT_MESSAGES_SIZE - Len(result.agent_messages)
    IN  IF IsSome(t) /\ ~result.agent_messages_truncated
        THEN /\ Len(Unwrap(t)) < room =>
                    /\ result'.agent_messages =
                           JoinLines(<<result.agent_messages, Unwrap(t)>>)
                    /\ ~result'.agent_messages_truncated
             /\ Len(Unwrap(t)) > room =>
                    /\ result'.agent_messages =
                           result.agent_messages \o TRUNCATION_MARKER
                    /\ result'.agent_messages_truncated
        ELSE /\ result'.agent_messages = result.agent_messages
             /\ result'.agent_messages_truncated = result.agent_messages_truncated

\* the session id, the success flag and the error change for the line's own
\* reasons only
VerdictFieldsStepAlone ==
    /\ result'.session_id # result.session_id =>
           result.session_id = "" /\ LineRead.session_id = Some(result'.session_id)
    /\ result'.success # result.success => IsErrorEvent(LineRead)
    /\ result'.error # result.error => IsErrorWithMessage(LineRead)

(* C32. The two byte caps are independent.  At every step of the drain the
   archive, its counter and its flag change as the archive and the line
   alone decide, truncated text or not, so events are still archived after
   the text was truncated; the text and its flag change as the text and the
   line alone decide, so fragments are still appended after the archive was
   truncated; and neither truncation touches the session id, the success
   flag or the error. *)
C32_CapsIndependent ==
    [][DrainStep =>
          /\ ArchiveStepAlone
          /\ TextStepAlone
          /\ VerdictFieldsStepAlone]_vars

\* the archive was truncated at the second line and its text still
\* appended; the text was truncated at the third line and the fourth line
\* still archived
C32_Witness ==
    /\ pc = "drain"
    /\ lines = <<EvAssistantLong, EvAssistant, EvCompletion, EvPing>>
    /\ result.all_messages = <<EvAssistantLong, EvPing>>
    /\ result.all_messages_truncated /\ result.agent_messages_truncated
    /\ result.agent_messages = F62 \o "\nbb" \o TRUNCATION_MARKER
    /\ result.success /\ result.error = None /\ result.session_id = "s1"

\* how many times an argument occurs in a command line
Occurrences(c, x) == Cardinality({i \in 1..Len(c) : c[i] = x})

\* a flag and its value, when the value is present
WhenPresent(flag, value) ==
    IF value = None THEN << >> ELSE <<flag, Unwrap(value)>>

\* the prompt text run composes: DROID.md as a system prompt, then the prompt
ComposedPrompt ==
    (IF droid_content = None THEN ""
     ELSE "<system_prompt>\n" \o Unwrap(droid_content) \o "\n</system_prompt>\n\n")
    \o (IF opts.prompt = None THEN "" ELSE Unwrap(opts.prompt))

\* the argument sequence as the claim lists it, from the request as run
\* passes it to the launcher
ArgumentsInOrder ==
    <<"exec">>
    \o <<"-o", IF opts.output_format = None THEN "stream-json"
               ELSE Unwrap(opts.output_format)>>
    \o <<"--cwd", opts.working_dir>>
    \o (IF opts.skip_permissions_unsafe THEN <<"--skip-permissions-unsafe">>
        ELSE <<"--auto", Unwrap(opts.auto)>>)
    \o WhenPresent("-r", opts.reasoning_effort)
    \o (IF opts.use_spec
        THEN <<"--use-spec">> \o WhenPresent("--spec-model", opts.spec_model)
        ELSE << >>)
    \o (IF opts.model = None THEN << >> ELSE <<"--model", Unwrap(opts.model).text>>)
    \o WhenPresent("--enabled-tools", opts.enabled_tools)
    \o WhenPresent("--disabled-tools", opts.disabled_tools)
    \o WhenPresent("--session-id", opts.session_id)
    \o opts.additional_args
    \o (IF opts.file = None THEN <<ComposedPrompt>>
        ELSE <<"--file", Unwrap(opts.file)>>)

(* C33. The argument sequence of every launched command is, in this order:
   exec; -o and the output format (stream-json if unset); --cwd and the
   working directory; exactly one of --skip-permissions-unsafe and
   --auto <level>; -r <effort> if present; --use-spec if enabled, then
   --spec-model <m> only if enabled and set; --model <m> if present;
   --enabled-tools then --disabled-tools if present; --session-id <id> if
   present; the extra arguments verbatim; and last either --file <path> or
   the composed prompt as the one positional argument, never both. *)
C33_ArgumentOrder ==
    spawns > 0 =>
        /\ cmd = ArgumentsInOrder
        /\ Occurrences(cmd, "--skip-permissions-unsafe")
               + Occurrences(cmd, "--auto") = 1
        /\ Occurrences(cmd, "--spec-model") <= Occurrences(cmd, "--use-spec")
        /\ IF opts.file = None
           THEN /\ cmd[Len(cmd)] = ComposedPrompt
                /\ Occurrences(cmd, "--file") = 0
           ELSE /\ cmd[Len(cmd) - 1] = "--file"
                /\ cmd[Len(cmd)] = Unwrap(opts.file)
                /\ Occurrences(cmd, ComposedPrompt) = 0

\* a command with every optional argument, the bypass flag for a request
\* that also names a level, and the prompt composed with DROID.md
C33_Witness ==
    /\ spawns = 1
    /\ cmd = <<"exec", "-o", "json", "--cwd", "/w", "--skip-permissions-unsafe",
               "-r", "medium", "--use-spec", "--spec-model", "spec-1",
               "--model", "custom:GPT-5-0", "--enabled-tools", "Read",
               "--disabled-tools", "Execute", "--session-id", "sid-9",
               "--verbose", "-x",
               "<system_prompt>\nBe brief.\n</system_prompt>\n\nfix the bug">>
    /\ opts.auto = Some("low")

====
